---- MODULE Spec2Model ----
(***************************************************************************)
(* The paste creation / retrieval pipeline of the pastebin:                *)
(*   POST /api/pastes   -> rateLimit -> PasteService.createPaste           *)
(*   GET  /api/pastes/x -> PasteService.getPaste (cache-aside)             *)
(*   PasteService.deletePaste                                              *)
(* over three shared back ends: Redis (ID counter, rate-limit keys, paste  *)
(* cache), the pastes table (Supabase/Postgres) and the wall clock; and    *)
(* the browser-side paste history (addToHistory over IndexedDB).           *)
(*                                                                         *)
(* Request handlers are stateless and share nothing but the back ends, so  *)
(* the requests in flight are kept as a bag of records: one record per     *)
(* request, holding the handler's position (pc) and its local variables.   *)
(* Every await of a handler is one step; the synchronous code that follows *)
(* an await up to the next await belongs to the same step.                 *)
(***************************************************************************)
EXTENDS Integers, Sequences, FiniteSets, Bags, TLC

(***************************************************************************)
(* Bounds of the model.                                                    *)
(***************************************************************************)
MaxRequests == 2
MaxInFlight == 2
MaxInputRequests == 1
MaxBurst == 6
MaxTicks == 2
MaxViewRequests == 4
MaxExpiryRequests == 4
MaxCounter == 130
MaxSlugs == 1
MaxWindowRequests == 11
MaxWindowTicks == 3
MaxReadRequests == 4
MaxCollisionRequests == 2
MaxDeleteRequests == 4
MaxHistoryCalls == 2

(***************************************************************************)
(* Program constants.                                                      *)
(***************************************************************************)
CACHE_TTL == 3600
RATE_LIMIT == 5
RATE_WINDOW == 60
CONTENT_SIZE_LIMIT == 100 * 1024
HASHIDS_MIN_LENGTH == 6
HASHIDS_ALPHABET_SIZE == 62
MAX_HISTORY_SIZE == 50

\* The clock advances in steps of forty minutes (seconds).
TickSeconds == 40 * 60

\* In SpecWindow it advances in steps of a third of the rate-limit window.
WindowTickSeconds == RATE_WINDOW \div 3

SUPPORTED_LANGUAGES ==
    { "text", "javascript", "typescript", "python", "java", "go", "rust",
      "cpp", "c", "csharp", "php", "ruby", "swift", "kotlin", "sql", "html",
      "css", "json", "yaml", "markdown", "bash", "shell" }

EXPIRATION_OPTIONS == { "1h", "1d", "7d", "never" }

(***************************************************************************)
(* Nullable values: null is the empty tuple, a value v is <<v>>.           *)
(***************************************************************************)
None == << >>
Some(v) == << v >>

Max(a, b) == IF a >= b THEN a ELSE b

(***************************************************************************)
(* Strings that matter by their length are kept as counts of UTF-16 code   *)
(* units: ws leading/trailing whitespace units, ascii one-byte units,      *)
(* multi three-byte units (BMP characters such as the euro sign).          *)
(***************************************************************************)
Text(ws, ascii, multi) == [ws |-> ws, ascii |-> ascii, multi |-> multi]

\* String.prototype.length
StrLength(s) == s.ws + s.ascii + s.multi

\* new TextEncoder().encode(s).length
Utf8Length(s) == s.ws + s.ascii + 3 * s.multi

\* String.prototype.trim
Trim(s) == [s EXCEPT !.ws = 0]

(***************************************************************************)
(* lib/hashids.ts.  encode is kept as the positional expansion of the      *)
(* counter over the 62-character alphabet, left-padded to the minimum      *)
(* length; a slug is the sequence of alphabet positions.  The salted       *)
(* shuffle of the Hashids library is not part of this model.               *)
(***************************************************************************)
RECURSIVE Digits(_)
Digits(n) ==
    IF n < HASHIDS_ALPHABET_SIZE
    THEN << n >>
    ELSE Append(Digits(n \div HASHIDS_ALPHABET_SIZE), n % HASHIDS_ALPHABET_SIZE)

RECURSIVE PadLeft(_, _)
PadLeft(s, len) == IF Len(s) >= len THEN s ELSE PadLeft(<< 0 >> \o s, len)

generateSlug(counter) == PadLeft(Digits(counter), HASHIDS_MIN_LENGTH)

\* the number a string over the alphabet reads as
RECURSIVE Value(_)
Value(s) ==
    IF Len(s) = 0 THEN 0
    ELSE Value(SubSeq(s, 1, Len(s) - 1)) * HASHIDS_ALPHABET_SIZE + s[Len(s)]

\* hashids.decode of a string over the alphabet: the numbers it encodes, the
\* empty array when encoding them does not give the string back
hashidsDecode(slug) ==
    IF Len(slug) > 0 /\ generateSlug(Value(slug)) = slug
    THEN << Value(slug) >>
    ELSE << >>

decodeSlug(slug) ==
    LET decoded == hashidsDecode(slug)
    IN  IF Len(decoded) > 0 THEN decoded[1] ELSE 0

(***************************************************************************)
(* lib/rate-limit: hashIP.  SHA-256 is kept as an injective tag.           *)
(***************************************************************************)
hashIP(ip) == << "sha256", ip >>

(***************************************************************************)
(* lib/schemas/paste.schema.ts: createPasteSchema.  A request body is a    *)
(* record of optional fields (None: the key is missing).                   *)
(***************************************************************************)
UUIDS == { "123e4567-e89b-12d3-a456-426614174000" }

ContentOk(content) ==
    /\ content # None
    /\ StrLength(content[1]) >= 1
    /\ StrLength(content[1]) <= CONTENT_SIZE_LIMIT

\* language, expiresIn and userId pass the schema
FieldsOk(body) ==
    /\ body.language = None \/ body.language[1] \in SUPPORTED_LANGUAGES
    /\ body.expiresIn = None \/ body.expiresIn[1] \in EXPIRATION_OPTIONS
    /\ body.userId = None \/ body.userId[1] \in UUIDS

SchemaOk(body) == ContentOk(body.content) /\ FieldsOk(body)

\* createPasteSchema.parse(input), for an input that passes the schema
validateCreatePasteInput(body) ==
    [ content   |-> Trim(body.content[1]),
      language  |-> IF body.language = None THEN "text" ELSE body.language[1],
      expiresIn |-> IF body.expiresIn = None THEN "7d" ELSE body.expiresIn[1],
      userId    |-> body.userId ]

(***************************************************************************)
(* lib/validators/paste.validator.ts                                       *)
(***************************************************************************)
\* (mutant of validateExpirationRules) the rule is not enforced
validateExpirationRulesOff(userId, expiresIn) == TRUE

\* TRUE when the rule lets the request through, FALSE when it throws
validateExpirationRules(userId, expiresIn) ==
    ~ ((userId = None \/ userId = Some("")) /\ expiresIn = "never")

\* (mutant of calculateExpiration) no default branch: only the listed
\* durations give a timestamp
calculateExpirationNoDefault(duration, t) ==
    IF duration = "1h" THEN Some(t + 3600)
    ELSE IF duration = "1d" THEN Some(t + 24 * 3600)
    ELSE None

calculateExpiration(duration, t) ==
    IF duration = "never" THEN None
    ELSE IF duration = "1h" THEN Some(t + 3600)
    ELSE IF duration = "1d" THEN Some(t + 24 * 3600)
    ELSE Some(t + 7 * 24 * 3600)

shouldUseObjectStorage(content) == Utf8Length(content) > CONTENT_SIZE_LIMIT

(***************************************************************************)
(* Errors thrown inside POST, and the status its catch block gives them.   *)
(* An error is [zod, message]; String.prototype.includes is the table      *)
(* below over the messages that occur.                                     *)
(***************************************************************************)
MsgTooLarge == "Content too large. Object storage not yet implemented."
MsgAnonymous == "Anonymous users must set an expiration time"
MsgInsert == "Failed to insert paste: duplicate key or connection error"
MsgRedis == "fetch failed"
MsgZod == "ZodError"

ZodError == [zod |-> TRUE, message |-> MsgZod]
Error(msg) == [zod |-> FALSE, message |-> msg]

Includes(message, needle) ==
    \/ message = MsgTooLarge /\ needle = "too large"
    \/ message = MsgAnonymous /\ needle = "Anonymous users"

\* (mutant of StatusOfError) an unrecognised message is a bad request
StatusOfErrorDefault400(error) ==
    IF error.zod THEN 400
    ELSE IF Includes(error.message, "too large") THEN 413
    ELSE IF Includes(error.message, "Anonymous users") THEN 403
    ELSE 400

StatusOfError(error) ==
    IF error.zod THEN 400
    ELSE IF Includes(error.message, "too large") THEN 413
    ELSE IF Includes(error.message, "Anonymous users") THEN 403
    ELSE IF Includes(error.message, "required") \/ Includes(error.message, "Invalid")
         THEN 400
    ELSE 500

\* The synchronous head of createPaste: the error it throws, or None
CreatePasteThrows(body) ==
    IF ~ SchemaOk(body) THEN Some(ZodError)
    ELSE LET v == validateCreatePasteInput(body) IN
         IF ~ validateExpirationRules(v.userId, v.expiresIn)
         THEN Some(Error(MsgAnonymous))
         ELSE IF shouldUseObjectStorage(v.content)
         THEN Some(Error(MsgTooLarge))
         ELSE None

(***************************************************************************)
(* State.                                                                  *)
(***************************************************************************)
VARIABLES
    history,        \* the browser's IndexedDB store `pastes`: set of entries, key slug
    now,            \* wall clock, seconds
    deserialize,    \* lib/redis client option: get() parses JSON values itself
    paste_counter,  \* Redis key paste_counter
    rate,           \* Redis keys rate_limit:<hash>: ip -> [count, ttlAt]; count 0: no key
    cache,          \* Redis keys paste:<slug>: slug -> [data, ttlAt]
    store,          \* rows of the pastes table
    nextRowId,      \* identity sequence of pastes.id
    pending,        \* bag of paste ids: increment_view_count calls issued, not yet run
    reqs,           \* bag of the requests in flight
    started,        \* history: number of requests received
    last,           \* history: the request answered last, with its response
    responses,      \* history: bag of << op, status >> of the responses sent
    served,         \* history: bag of the slugs of the reads answered with a paste
    gone,           \* history: the slugs a read has answered none because expired
    deleted,        \* history: the slugs deletePaste has returned true for
    allowedAt,      \* history: bag of << ip, time >>: the requests rateLimit allowed
                    \* with its back end available, by the time of their INCR
    issued,         \* history: bag of the values INCR paste_counter has returned
    lost            \* history: number of view-count increments that failed

vars == << history, now, deserialize, paste_counter, rate, cache, store, nextRowId,
           pending, reqs, started, last, responses, served, gone, deleted,
           allowedAt, issued, lost >>

\* what a step that starts or answers no request leaves alone
hist == << started, last, responses, served, gone, deleted, allowedAt >>

IPS == { "203.0.113.7" }

\* The slugs readers ask for: the first MaxSlugs slugs the counter can issue
RequestedSlugs == { generateSlug(n) : n \in 1 .. MaxSlugs }

(***************************************************************************)
(* Request bodies.  InvalidJson is a body request.json() rejects.          *)
(***************************************************************************)
InvalidJson == [json |-> FALSE]

Contents ==
    { None,
      Some(Text(0, 0, 0)),
      Some(Text(2, 0, 0)),
      Some(Text(0, 11, 0)),
      Some(Text(0, CONTENT_SIZE_LIMIT, 0)),
      Some(Text(0, CONTENT_SIZE_LIMIT + 1, 0)),
      Some(Text(0, 0, 40000)) }

Bodies ==
    [ content   : Contents,
      language  : { None, Some("python"), Some("not-a-real-language") },
      expiresIn : { None, Some("1h"), Some("1d"), Some("never"), Some("2w") },
      userId    : { None, Some("123e4567-e89b-12d3-a456-426614174000"),
                    Some("not-a-uuid") } ]

(***************************************************************************)
(* Init: empty back ends, no request yet.                                  *)
(***************************************************************************)
Init ==
    /\ history = {}
    /\ now = 0
    /\ deserialize \in BOOLEAN
    /\ paste_counter = 0
    /\ rate = [ip \in IPS |-> [count |-> 0, ttlAt |-> None]]
    /\ cache = << >>
    /\ store = {}
    /\ nextRowId = 1
    /\ pending = EmptyBag
    /\ reqs = EmptyBag
    /\ started = 0
    /\ last = None
    /\ responses = EmptyBag
    /\ served = EmptyBag
    /\ gone = {}
    /\ deleted = {}
    /\ allowedAt = EmptyBag
    /\ issued = EmptyBag
    /\ lost = 0

\* the initial state of the specifications that make no read
InitCreate == Init /\ deserialize = FALSE

One(x) == SetToBag({x})

\* request r takes a step and becomes r2; a request that is answered leaves
\* the requests in flight
Step(r, r2) ==
    IF r2.pc = "done"
    THEN /\ reqs' = reqs (-) One(r)
         /\ last' = Some(r2)
         /\ responses' = responses (+) One(<< r2.op, r2.status >>)
         /\ served' = IF r2.op = "GET" /\ r2.status = 200
                       THEN served (+) One(r2.slug) ELSE served
         /\ gone' = IF r2.op = "GET" /\ "expired" \in DOMAIN r2 /\ r2.expired
                     THEN gone \cup { r2.slug } ELSE gone
         /\ deleted' = IF r2.op = "DELETE" /\ r2.status = 200
                        THEN deleted \cup { r2.slug } ELSE deleted
         /\ UNCHANGED allowedAt
    ELSE /\ reqs' = (reqs (-) One(r)) (+) One(r2)
         /\ allowedAt' = IF r.pc = "rl_ttl" /\ r2.pc = "parse" /\ ~ r2.rlFailed
                          THEN allowedAt (+) One(<< r.ip, r.at >>) ELSE allowedAt
         /\ UNCHANGED << last, responses, served, gone, deleted >>

\* the number of requests not yet answered
InFlight == BagCardinality(reqs)

At(op, pc) == { r \in BagToSet(reqs) : r.op = op /\ r.pc = pc }

(***************************************************************************)
(* Redis primitives.                                                       *)
(***************************************************************************)
\* (mutant of RedisIncr) the counter is read and not incremented
RedisGetOnly(value) == value

\* INCR: the value after the increment (a missing key counts as 0)
RedisIncr(value) == value + 1

\* TTL: -2 for a missing key, -1 for a key without expiry, else seconds left
RedisTtl(key) ==
    IF key.count = 0 THEN 0 - 2
    ELSE IF key.ttlAt = None THEN 0 - 1
    ELSE key.ttlAt[1] - now

\* Keys whose expiry has come are gone
LiveRate(t) ==
    [ip \in IPS |->
        IF rate[ip].ttlAt # None /\ rate[ip].ttlAt[1] <= t
        THEN [count |-> 0, ttlAt |-> None]
        ELSE rate[ip]]

LiveCache(t) ==
    LET keep == { s \in DOMAIN cache : cache[s].ttlAt > t }
    IN  [s \in keep |-> cache[s]]

Tick ==
    /\ now < MaxTicks * TickSeconds
    /\ now' = now + TickSeconds
    /\ rate' = LiveRate(now')
    /\ cache' = LiveCache(now')
    /\ UNCHANGED << history, deserialize, paste_counter, store, nextRowId, pending,
                    reqs, hist, issued, lost >>

(***************************************************************************)
(* POST /api/pastes (app/api/pastes/route.ts) with rateLimit (lib/rate-    *)
(* limit) and PasteService.createPaste inlined.  In an answered request    *)
(* `why`, `anonNever` and `rlFailed` are history: why the handler answered *)
(* as it did, whether the body had no userId and expiresIn "never", and    *)
(* whether a rate-limit back-end call failed; `content` is the content of  *)
(* the body as sent and `fieldsOk` whether its other fields pass the       *)
(* schema.                                                                 *)
(***************************************************************************)
StartPost(ip, max) ==
    /\ started < max
    /\ InFlight < MaxInFlight
    /\ started' = started + 1
    /\ reqs' = reqs (+) One([op |-> "POST", pc |-> "rl_incr", ip |-> ip])
    /\ UNCHANGED << history, now, deserialize, paste_counter, rate, cache, store,
                    nextRowId, pending, issued, lost, last, responses, served,
                    gone, deleted, allowedAt >>

\* the record of a request that is answered: its response and its history
Answered(r, status, why, more) ==
    [ op |-> r.op, pc |-> "done", status |-> status, why |-> why ] @@ more

\* (mutant of FailOpen) fail closed: the request is rejected
FailClosed(r) ==
    Answered(r, 429, "rate_limited",
             [ ip |-> r.ip, rlFailed |-> TRUE,
               rl |-> [ success |-> FALSE, limit |-> RATE_LIMIT, remaining |-> 0,
                        reset |-> now * 1000 + RATE_WINDOW * 1000 ] ])

\* rateLimit's catch block: fail open
FailOpen(r) ==
    [ op |-> "POST", pc |-> "parse", ip |-> r.ip, rlFailed |-> TRUE,
      rl |-> [ success |-> TRUE, limit |-> RATE_LIMIT, remaining |-> RATE_LIMIT,
               reset |-> now * 1000 + RATE_WINDOW * 1000 ] ]

\* const current = await redis.incr(key); `at` is history: the time of the call
RlIncr(r, ok) ==
    /\ r \in At("POST", "rl_incr")
    /\ IF ok
       THEN LET current == RedisIncr(rate[r.ip].count) IN
            /\ rate' = [rate EXCEPT ![r.ip].count = current]
            /\ Step(r, [ op |-> "POST", ip |-> r.ip, current |-> current,
                         at |-> now,
                         pc |-> IF current = 1 THEN "rl_expire" ELSE "rl_ttl" ])
       ELSE /\ Step(r, FailOpen(r))
            /\ UNCHANGED rate
    /\ UNCHANGED << history, now, deserialize, paste_counter, cache, store, nextRowId,
                    pending, issued, lost, started >>

\* (mutant of RlExpire) the key expires after a third of the window
RlExpireShortWindow(r, ok) ==
    /\ r \in At("POST", "rl_expire")
    /\ IF ok
       THEN /\ rate' = IF rate[r.ip].count = 0 THEN rate
                       ELSE [rate EXCEPT ![r.ip].ttlAt = Some(now + RATE_WINDOW \div 3)]
            /\ Step(r, [r EXCEPT !.pc = "rl_ttl"])
       ELSE /\ Step(r, FailOpen(r))
            /\ UNCHANGED rate
    /\ UNCHANGED << history, now, deserialize, paste_counter, cache, store, nextRowId,
                    pending, issued, lost, started >>

\* await redis.expire(key, window); a missing key is left missing
RlExpire(r, ok) ==
    /\ r \in At("POST", "rl_expire")
    /\ IF ok
       THEN /\ rate' = IF rate[r.ip].count = 0 THEN rate
                       ELSE [rate EXCEPT ![r.ip].ttlAt = Some(now + RATE_WINDOW)]
            /\ Step(r, [r EXCEPT !.pc = "rl_ttl"])
       ELSE /\ Step(r, FailOpen(r))
            /\ UNCHANGED rate
    /\ UNCHANGED << history, now, deserialize, paste_counter, cache, store, nextRowId,
                    pending, issued, lost, started >>

\* (mutant of RateLimitResult) remaining is not clamped at zero
RateLimitResultUnclamped(current, ttl) ==
    [ success   |-> current <= RATE_LIMIT,
      limit     |-> RATE_LIMIT,
      remaining |-> RATE_LIMIT - current,
      reset     |-> now * 1000 + ttl * 1000 ]

\* (mutant of RateLimitResult) the request that reaches the limit is rejected
RateLimitResultStrict(current, ttl) ==
    [ success   |-> current < RATE_LIMIT,
      limit     |-> RATE_LIMIT,
      remaining |-> Max(0, RATE_LIMIT - current),
      reset     |-> now * 1000 + ttl * 1000 ]

RateLimitResult(current, ttl) ==
    [ success   |-> current <= RATE_LIMIT,
      limit     |-> RATE_LIMIT,
      remaining |-> Max(0, RATE_LIMIT - current),
      reset     |-> now * 1000 + ttl * 1000 ]

\* (mutant of RlTtl) a request that is allowed is counted once more
RlTtlCountingAgain(r, ok) ==
    /\ r \in At("POST", "rl_ttl")
    /\ IF ok
       THEN LET rl == RateLimitResult(r.current, RedisTtl(rate[r.ip])) IN
            IF rl.success
            THEN /\ rate' = [rate EXCEPT ![r.ip].count = RedisIncr(@)]
                 /\ Step(r, [ op |-> "POST", pc |-> "parse", ip |-> r.ip,
                              rlFailed |-> FALSE, rl |-> rl ])
            ELSE /\ rate' = rate
                 /\ Step(r, Answered(r, 429, "rate_limited",
                                     [ ip |-> r.ip, rl |-> rl, rlFailed |-> FALSE ]))
       ELSE /\ rate' = rate
            /\ Step(r, FailOpen(r))
    /\ UNCHANGED << history, now, deserialize, paste_counter, cache, store,
                    nextRowId, pending, issued, lost, started >>

\* const ttl = await redis.ttl(key), the result, and POST's 429 branch
RlTtl(r, ok) ==
    /\ r \in At("POST", "rl_ttl")
    /\ IF ok
       THEN LET rl == RateLimitResult(r.current, RedisTtl(rate[r.ip])) IN
            IF rl.success
            THEN Step(r, [ op |-> "POST", pc |-> "parse", ip |-> r.ip,
                           rlFailed |-> FALSE, rl |-> rl ])
            ELSE Step(r, Answered(r, 429, "rate_limited",
                                  [ ip |-> r.ip, rl |-> rl, rlFailed |-> FALSE ]))
       ELSE Step(r, FailOpen(r))
    /\ UNCHANGED << history, now, deserialize, paste_counter, rate, cache, store,
                    nextRowId, pending, issued, lost, started >>

\* the history fields of a request whose body was read
Hist(r) ==
    [ ip |-> r.ip, rlFailed |-> r.rlFailed, anonNever |-> r.anonNever,
      schemaOk |-> r.schemaOk, content |-> r.content, fieldsOk |-> r.fieldsOk ]

AnonNever(body) == body.userId = None /\ body.expiresIn = Some("never")

\* (mutant of ParseBody) the counter is incremented before the input is checked
ParseBodyCountingFirst(r, body) ==
    /\ r \in At("POST", "parse")
    /\ IF body = InvalidJson
       THEN /\ Step(r, Answered(r, 400, "invalid_json",
                                [ ip |-> r.ip, rlFailed |-> r.rlFailed ]))
            /\ UNCHANGED << paste_counter, issued >>
       ELSE LET thrown == CreatePasteThrows(body)
                read == [ ip |-> r.ip, rlFailed |-> r.rlFailed,
                          anonNever |-> AnonNever(body),
                          schemaOk |-> SchemaOk(body),
                          content |-> body.content,
                          fieldsOk |-> FieldsOk(body) ]
            IN  /\ paste_counter' = RedisIncr(paste_counter)
                /\ issued' = issued (+) One(paste_counter')
                /\ IF thrown # None
                   THEN Step(r, Answered(r, StatusOfError(thrown[1]),
                                         thrown[1].message, read))
                   ELSE Step(r, [ op |-> "POST", pc |-> "insert", rl |-> r.rl,
                                  input |-> validateCreatePasteInput(body),
                                  counter |-> paste_counter',
                                  slug |-> generateSlug(paste_counter'),
                                  expiresAt |-> calculateExpiration(
                                      validateCreatePasteInput(body).expiresIn, now) ]
                                @@ read)
    /\ UNCHANGED << history, now, deserialize, rate, cache, store, nextRowId, pending,
                    lost, started >>

\* body = await request.json(), then createPaste up to its first await
ParseBody(r, body) ==
    /\ r \in At("POST", "parse")
    /\ IF body = InvalidJson
       THEN Step(r, Answered(r, 400, "invalid_json",
                             [ ip |-> r.ip, rlFailed |-> r.rlFailed ]))
       ELSE LET thrown == CreatePasteThrows(body)
                read == [ ip |-> r.ip, rlFailed |-> r.rlFailed,
                          anonNever |-> AnonNever(body),
                          schemaOk |-> SchemaOk(body),
                          content |-> body.content,
                          fieldsOk |-> FieldsOk(body) ]
            IN  IF thrown # None
                THEN Step(r, Answered(r, StatusOfError(thrown[1]),
                                      thrown[1].message, read))
                ELSE Step(r, [ op |-> "POST", pc |-> "create_incr", rl |-> r.rl,
                               input |-> validateCreatePasteInput(body) ] @@ read)
    /\ UNCHANGED << history, now, deserialize, paste_counter, rate, cache, store,
                    nextRowId, pending, issued, lost, started >>

\* const counter = await redis.incr('paste_counter'); slug; expiresAt
CreateIncr(r, ok) ==
    /\ r \in At("POST", "create_incr")
    /\ IF ok
       THEN LET counter == RedisIncr(paste_counter) IN
            /\ paste_counter' = counter
            /\ issued' = issued (+) One(counter)
            /\ Step(r, [ pc |-> "insert", counter |-> counter,
                         slug |-> generateSlug(counter),
                         expiresAt |-> calculateExpiration(r.input.expiresIn, now) ]
                       @@ r)
       ELSE /\ Step(r, Answered(r, StatusOfError(Error(MsgRedis)), "counter_failed",
                                Hist(r)))
            /\ UNCHANGED << paste_counter, issued >>
    /\ UNCHANGED << history, now, deserialize, rate, cache, store, nextRowId,
                    pending, lost, started >>

(***************************************************************************)
(* The pastes table (docs/ARCHITECTURE.md): slug is UNIQUE, and            *)
(* check_anonymous_expiration holds of every row.                          *)
(***************************************************************************)
InsertAccepts(data) ==
    /\ \A row \in store : row.slug # data.slug
    /\ data.user_id # None \/ data.expires_at # None

NewRow(data) ==
    [ id |-> nextRowId, slug |-> data.slug, content |-> data.content,
      language |-> data.language, user_id |-> data.user_id,
      ip_hash |-> data.ip_hash, created_at |-> now,
      expires_at |-> data.expires_at, view_count |-> 0 ]

\* PasteRepository.toDomainModel
toDomainModel(row) ==
    [ id |-> row.id, slug |-> row.slug, content |-> row.content,
      language |-> row.language, userId |-> row.user_id,
      createdAt |-> row.created_at, expiresAt |-> row.expires_at,
      viewCount |-> row.view_count ]

\* the PasteInsert createPaste hands to repository.create
PasteInsert(r) ==
    [ slug |-> r.slug, content |-> r.input.content, language |-> r.input.language,
      user_id |-> r.input.userId, ip_hash |-> hashIP(r.ip),
      expires_at |-> r.expiresAt ]

\* (mutant of Insert) a failed insert is not thrown: createPaste goes on with
\* the paste it meant to store
InsertSwallowingError(r, ok) ==
    /\ r \in At("POST", "insert")
    /\ LET row == NewRow(PasteInsert(r)) IN
       IF ok /\ InsertAccepts(PasteInsert(r))
       THEN /\ store' = store \cup {row}
            /\ nextRowId' = nextRowId + 1
            /\ Step(r, [ pc |-> "cache_put", paste |-> toDomainModel(row) ] @@ r)
       ELSE /\ Step(r, [ pc |-> "cache_put", paste |-> toDomainModel(row) ] @@ r)
            /\ UNCHANGED << store, nextRowId >>
    /\ UNCHANGED << history, now, deserialize, paste_counter, rate, cache, pending,
                    issued, lost, started >>

\* (mutant of Insert) an insert whose slug exists replaces the row of the slug
InsertUpsert(r, ok) ==
    /\ r \in At("POST", "insert")
    /\ IF ok /\ (PasteInsert(r).user_id # None \/ PasteInsert(r).expires_at # None)
       THEN LET row == NewRow(PasteInsert(r)) IN
            /\ store' = { x \in store : x.slug # row.slug } \cup {row}
            /\ nextRowId' = nextRowId + 1
            /\ Step(r, [ pc |-> "cache_put", paste |-> toDomainModel(row) ] @@ r)
       ELSE /\ Step(r, Answered(r, StatusOfError(Error(MsgInsert)), "insert_failed",
                                [ slug |-> r.slug ] @@ Hist(r)))
            /\ UNCHANGED << store, nextRowId >>
    /\ UNCHANGED << history, now, deserialize, paste_counter, rate, cache, pending,
                    issued, lost, started >>

\* const paste = await this.repository.create({...})
Insert(r, ok) ==
    /\ r \in At("POST", "insert")
    /\ IF ok /\ InsertAccepts(PasteInsert(r))
       THEN LET row == NewRow(PasteInsert(r)) IN
            /\ store' = store \cup {row}
            /\ nextRowId' = nextRowId + 1
            /\ Step(r, [ pc |-> "cache_put", paste |-> toDomainModel(row) ] @@ r)
       ELSE /\ Step(r, Answered(r, StatusOfError(Error(MsgInsert)), "insert_failed",
                                [ slug |-> r.slug ] @@ Hist(r)))
            /\ UNCHANGED << store, nextRowId >>
    /\ UNCHANGED << history, now, deserialize, paste_counter, rate, cache, pending,
                    issued, lost, started >>

(***************************************************************************)
(* PasteService.cachePaste: SET paste:<slug> <json> EX CACHE_TTL, errors   *)
(* logged and dropped.  The value of cache' after the call.                *)
(***************************************************************************)
cachePaste(slug, data, ok) ==
    IF ok
    THEN (slug :> [ data |-> data, ttlAt |-> now + CACHE_TTL ]) @@ cache
    ELSE cache

\* (mutant of CachePutCreated) a failed cache write is thrown out of createPaste
CachePutCreatedThrowing(r, ok) ==
    /\ r \in At("POST", "cache_put")
    /\ cache' = cachePaste(r.slug,
                           [ content |-> r.input.content,
                             language |-> r.paste.language,
                             created_at |-> r.paste.createdAt,
                             expires_at |-> r.expiresAt ], ok)
    /\ IF ok
       THEN Step(r, Answered(r, 201, "created",
                             [ slug |-> r.paste.slug, createdAt |-> r.paste.createdAt,
                               expiresAt |-> r.paste.expiresAt, rl |-> r.rl,
                               cached |-> ok ] @@ Hist(r)))
       ELSE Step(r, Answered(r, StatusOfError(Error(MsgRedis)), "cache_failed",
                             [ slug |-> r.paste.slug, cached |-> ok ] @@ Hist(r)))
    /\ UNCHANGED << history, now, deserialize, paste_counter, rate, store, nextRowId,
                    pending, issued, lost, started >>

\* await this.cachePaste(slug, {...}); return paste  -> 201
CachePutCreated(r, ok) ==
    /\ r \in At("POST", "cache_put")
    /\ cache' = cachePaste(r.slug,
                           [ content |-> r.input.content,
                             language |-> r.paste.language,
                             created_at |-> r.paste.createdAt,
                             expires_at |-> r.expiresAt ], ok)
    /\ Step(r, Answered(r, 201, "created",
                        [ slug |-> r.paste.slug, createdAt |-> r.paste.createdAt,
                          expiresAt |-> r.paste.expiresAt, rl |-> r.rl,
                          cached |-> ok ] @@ Hist(r)))
    /\ UNCHANGED << history, now, deserialize, paste_counter, rate, store, nextRowId,
                    pending, issued, lost, started >>

(***************************************************************************)
(* GET /api/pastes/[slug] with PasteService.getPaste inlined.  History in  *)
(* a GET request: startedAt (the clock when it arrived), viewsAtStart (the  *)
(* view count the table held for the slug when it arrived), cacheOutcome   *)
(* (what the cache lookup gave) and live (whether, when the handler        *)
(* decided between paste and none, the table held an unexpired row for     *)
(* the slug).                                                              *)
(***************************************************************************)
\* the view_count the table holds for a slug, None when it has no row of it
ViewsOf(slug) ==
    LET rows == { row \in store : row.slug = slug } IN
    IF rows = {} THEN None ELSE Some((CHOOSE row \in rows : TRUE).view_count)

StartGet(slug, max) ==
    /\ started < max
    /\ InFlight < MaxInFlight
    /\ started' = started + 1
    /\ reqs' = reqs (+) One([ op |-> "GET", pc |-> "cache_get", slug |-> slug,
                              startedAt |-> now, afterGone |-> slug \in gone,
                              afterDelete |-> slug \in deleted,
                              viewsAtStart |-> ViewsOf(slug) ])
    /\ UNCHANGED << history, now, deserialize, paste_counter, rate, cache, store,
                    nextRowId, pending, issued, lost, last, responses, served,
                    gone, deleted, allowedAt >>

\* the row of the slug that a reader would be served: present and not expired
Unexpired(row) == row.expires_at = None \/ ~ (row.expires_at[1] < now)

HoldsUnexpired(slug) == \E row \in store : row.slug = slug /\ Unexpired(row)

\* PasteService.getCachedPaste: "error", "miss", "nonstring" or "hit"
getCachedPaste(slug, ok) ==
    IF ~ ok THEN "error"
    ELSE IF slug \notin DOMAIN cache THEN "miss"
    ELSE IF deserialize THEN "nonstring"
    ELSE "hit"

\* (mutant of cachedPasteToDomain) the cached expiry is not carried over
cachedPasteToDomainNoExpiry(slug, cached) ==
    [ id |-> 0, slug |-> slug, content |-> cached.content,
      language |-> cached.language, userId |-> None,
      createdAt |-> cached.created_at, expiresAt |-> None,
      viewCount |-> 0 ]

\* PasteService.cachedPasteToDomain
cachedPasteToDomain(slug, cached) ==
    [ id |-> 0, slug |-> slug, content |-> cached.content,
      language |-> cached.language, userId |-> None,
      createdAt |-> cached.created_at, expiresAt |-> cached.expires_at,
      viewCount |-> 0 ]

\* (mutant of AfterCacheLookup) a lookup that finds nothing is answered none
AfterCacheLookupMissIsNone(r, outcome) ==
    IF outcome = "hit"
    THEN Answered(r, 200, "cache",
                  [ slug |-> r.slug, startedAt |-> r.startedAt,
                    afterGone |-> r.afterGone, afterDelete |-> r.afterDelete,
                    viewsAtStart |-> r.viewsAtStart, cacheOutcome |-> outcome,
                    paste |-> cachedPasteToDomain(r.slug, cache[r.slug].data) ])
    ELSE Answered(r, 404, "none",
                  [ slug |-> r.slug, startedAt |-> r.startedAt,
                    afterGone |-> r.afterGone, afterDelete |-> r.afterDelete,
                    viewsAtStart |-> r.viewsAtStart, cacheOutcome |-> outcome,
                    live |-> HoldsUnexpired(r.slug) ])

\* getPaste after getCachedPaste: the request's next record
AfterCacheLookup(r, outcome) ==
    IF outcome = "hit"
    THEN Answered(r, 200, "cache",
                  [ slug |-> r.slug, startedAt |-> r.startedAt,
                    afterGone |-> r.afterGone, afterDelete |-> r.afterDelete,
                    viewsAtStart |-> r.viewsAtStart, cacheOutcome |-> outcome,
                    paste |-> cachedPasteToDomain(r.slug, cache[r.slug].data) ])
    ELSE [ op |-> "GET", pc |-> "store_get", slug |-> r.slug,
           startedAt |-> r.startedAt, afterGone |-> r.afterGone, afterDelete |-> r.afterDelete,
                    viewsAtStart |-> r.viewsAtStart,
           cacheOutcome |-> outcome ]

\* const cached = await this.getCachedPaste(slug); if (cached) return ...
GetCached(r, ok) ==
    /\ r \in At("GET", "cache_get")
    /\ Step(r, AfterCacheLookup(r, getCachedPaste(r.slug, ok)))
    /\ UNCHANGED << history, now, deserialize, paste_counter, rate, cache, store,
                    nextRowId, pending, issued, lost, started >>

\* PasteDAO.findBySlug: the rows .eq('slug', slug) selects
findBySlug(slug) == { row \in store : row.slug = slug }

\* (mutant of getBySlug) the row is returned whatever its expires_at
getBySlugNoExpiryCheck(slug) ==
    LET rows == findBySlug(slug) IN
    IF rows = {} THEN None
    ELSE Some(toDomainModel(CHOOSE x \in rows : TRUE))

\* PasteRepository.getBySlug: None, or the domain model of the row
getBySlug(slug) ==
    LET rows == findBySlug(slug) IN
    IF rows = {} THEN None
    ELSE LET row == CHOOSE x \in rows : TRUE IN
         IF row.expires_at # None /\ row.expires_at[1] < now
         THEN None
         ELSE Some(toDomainModel(row))

\* (mutant of GetBySlug) the error of a query that selects no row is thrown
GetBySlugNoRowThrows(r, ok) ==
    /\ r \in At("GET", "store_get")
    /\ LET looked == [ slug |-> r.slug, startedAt |-> r.startedAt,
                     afterGone |-> r.afterGone, afterDelete |-> r.afterDelete,
                    viewsAtStart |-> r.viewsAtStart, cacheOutcome |-> r.cacheOutcome ]
       IN  IF ~ ok
           THEN Step(r, Answered(r, 500, "store_failed", looked))
           ELSE LET paste == getBySlug(r.slug)
                    seen == [ live |-> HoldsUnexpired(r.slug) ] @@ looked
                IN  IF findBySlug(r.slug) = {}
                    THEN Step(r, Answered(r, 500, "no_rows", seen))
                    ELSE IF paste = None
                    THEN Step(r, Answered(r, 404, "none",
                                          [ expired |-> TRUE ] @@ seen))
                    ELSE Step(r, [ op |-> "GET", pc |-> "cache_put",
                                   paste |-> paste[1] ] @@ seen)
    /\ UNCHANGED << history, now, deserialize, paste_counter, rate, cache, store,
                    nextRowId, pending, issued, lost, started >>

\* const paste = await this.repository.getBySlug(slug); if (!paste) return null
GetBySlug(r, ok) ==
    /\ r \in At("GET", "store_get")
    /\ LET looked == [ slug |-> r.slug, startedAt |-> r.startedAt,
                     afterGone |-> r.afterGone, afterDelete |-> r.afterDelete,
                    viewsAtStart |-> r.viewsAtStart, cacheOutcome |-> r.cacheOutcome ]
       IN  IF ~ ok
           THEN Step(r, Answered(r, 500, "store_failed", looked))
           ELSE LET paste == getBySlug(r.slug)
                    seen == [ live |-> HoldsUnexpired(r.slug) ] @@ looked
                IN  IF paste = None
                    THEN Step(r, Answered(r, 404, "none",
                                          [ expired |-> findBySlug(r.slug) # {} ]
                                          @@ seen))
                    ELSE Step(r, [ op |-> "GET", pc |-> "cache_put",
                                   paste |-> paste[1] ] @@ seen)
    /\ UNCHANGED << history, now, deserialize, paste_counter, rate, cache, store,
                    nextRowId, pending, issued, lost, started >>

\* (mutant of CachePutRead) the increment is awaited and its failure is thrown
CachePutReadAwaitingIncrement(r, ok) ==
    /\ r \in At("GET", "cache_put")
    /\ cache' = cachePaste(r.slug,
                           [ content |-> r.paste.content,
                             language |-> r.paste.language,
                             created_at |-> r.paste.createdAt,
                             expires_at |-> r.paste.expiresAt ], ok)
    /\ \E incremented \in BOOLEAN :
          IF incremented
          THEN /\ store' = { [row EXCEPT !.view_count =
                                 IF row.id = r.paste.id THEN @ + 1 ELSE @] :
                             row \in store }
               /\ Step(r, Answered(r, 200, "store",
                                   [ slug |-> r.slug, startedAt |-> r.startedAt,
                                     afterGone |-> r.afterGone, afterDelete |-> r.afterDelete,
                    viewsAtStart |-> r.viewsAtStart,
                                     cacheOutcome |-> r.cacheOutcome,
                                     live |-> r.live, paste |-> r.paste ]))
          ELSE /\ store' = store
               /\ Step(r, Answered(r, 500, "increment_failed",
                                   [ slug |-> r.slug, startedAt |-> r.startedAt,
                                     afterGone |-> r.afterGone, afterDelete |-> r.afterDelete,
                    viewsAtStart |-> r.viewsAtStart,
                                     cacheOutcome |-> r.cacheOutcome ]))
    /\ UNCHANGED << history, now, deserialize, paste_counter, rate, nextRowId, pending,
                    issued, lost, started >>

\* await this.cachePaste(...); this.repository.incrementViewCount(paste.id)
\* is issued and not awaited; return paste  -> 200
CachePutRead(r, ok) ==
    /\ r \in At("GET", "cache_put")
    /\ cache' = cachePaste(r.slug,
                           [ content |-> r.paste.content,
                             language |-> r.paste.language,
                             created_at |-> r.paste.createdAt,
                             expires_at |-> r.paste.expiresAt ], ok)
    /\ pending' = pending (+) One(r.paste.id)
    /\ Step(r, Answered(r, 200, "store",
                        [ slug |-> r.slug, startedAt |-> r.startedAt,
                          afterGone |-> r.afterGone, afterDelete |-> r.afterDelete,
                    viewsAtStart |-> r.viewsAtStart,
                          cacheOutcome |-> r.cacheOutcome, live |-> r.live,
                          paste |-> r.paste ]))
    /\ UNCHANGED << history, now, deserialize, paste_counter, rate, store, nextRowId,
                    issued, lost, started >>

(***************************************************************************)
(* increment_view_count(paste_id), run by the database: one UPDATE.  A     *)
(* failed call is logged by PasteDAO.incrementViewCount or by getPaste's   *)
(* catch and changes nothing.                                              *)
(***************************************************************************)
increment_view_count(row, paste_id) ==
    IF row.id = paste_id
    THEN [row EXCEPT !.view_count = @ + 1]
    ELSE row

\* (mutant of ViewIncrement) read-then-write by the callers: the calls pending
\* together read the same count, and their writes leave it one higher
ViewIncrementLostUpdate(id, ok) ==
    /\ BagIn(id, pending)
    /\ IF ok
       THEN /\ pending' = [ x \in DOMAIN pending \ {id} |-> pending[x] ]
            /\ store' = { increment_view_count(row, id) : row \in store }
            /\ UNCHANGED lost
       ELSE /\ pending' = pending (-) One(id)
            /\ lost' = lost + 1
            /\ UNCHANGED store
    /\ UNCHANGED << history, now, deserialize, paste_counter, rate, cache, nextRowId,
                    reqs, hist, issued >>

ViewIncrement(id, ok) ==
    /\ BagIn(id, pending)
    /\ pending' = pending (-) One(id)
    /\ IF ok
       THEN /\ store' = { increment_view_count(row, id) : row \in store }
            /\ UNCHANGED lost
       ELSE /\ lost' = lost + 1
            /\ UNCHANGED store
    /\ UNCHANGED << history, now, deserialize, paste_counter, rate, cache, nextRowId,
                    reqs, hist, issued >>

(***************************************************************************)
(* PasteService.deletePaste.  A call is kept with the requests in flight   *)
(* under op "DELETE"; it is answered 200 when it returns true and 500 when *)
(* it throws.                                                              *)
(***************************************************************************)
StartDelete(slug, max) ==
    /\ started < max
    /\ InFlight < MaxInFlight
    /\ started' = started + 1
    /\ reqs' = reqs (+) One([ op |-> "DELETE", pc |-> "delete_row", slug |-> slug ])
    /\ UNCHANGED << history, now, deserialize, paste_counter, rate, cache, store,
                    nextRowId, pending, issued, lost, last, responses, served,
                    gone, deleted, allowedAt >>

\* PasteDAO.deleteBySlug: the table after .delete().eq('slug', slug)
deleteBySlug(slug) == { row \in store : row.slug # slug }

\* const deleted = await this.repository.deleteBySlug(slug)
DeleteBySlug(r, ok) ==
    /\ r \in At("DELETE", "delete_row")
    /\ IF ok
       THEN /\ store' = deleteBySlug(r.slug)
            /\ Step(r, [r EXCEPT !.pc = "cache_del"])
       ELSE /\ Step(r, Answered(r, 500, "delete_failed", [ slug |-> r.slug ]))
            /\ UNCHANGED store
    /\ UNCHANGED << history, now, deserialize, paste_counter, rate, cache, nextRowId,
                    pending, issued, lost, started >>

\* if (deleted) await redis.del(`paste:${slug}`); return deleted
CacheDel(r, ok) ==
    /\ r \in At("DELETE", "cache_del")
    /\ IF ok
       THEN /\ cache' = [ s \in DOMAIN cache \ { r.slug } |-> cache[s] ]
            /\ Step(r, Answered(r, 200, "deleted", [ slug |-> r.slug ]))
       ELSE /\ Step(r, Answered(r, 500, "cache_del_failed", [ slug |-> r.slug ]))
            /\ UNCHANGED cache
    /\ UNCHANGED << history, now, deserialize, paste_counter, rate, store, nextRowId,
                    pending, issued, lost, started >>

(***************************************************************************)
(* lib/storage/paste-history.ts: addToHistory and enforceHistoryLimit.  An *)
(* entry is [slug, viewedAt, isOwned]: slugs are numbers in key order,     *)
(* viewedAt is a number in the order of the ISO timestamps, and the fields *)
(* that addToHistory copies unread (language, contentPreview, createdAt,   *)
(* metadata) are left out.  A call is kept with the requests in flight     *)
(* under op "HISTORY" between its two transactions; each transaction is    *)
(* one step.                                                               *)
(***************************************************************************)
\* the order of the index viewedAt: by viewedAt, then by primary key
Before(x, y) ==
    \/ x.viewedAt < y.viewedAt
    \/ x.viewedAt = y.viewedAt /\ x.slug < y.slug

\* (mutant of toDelete) the newest entries are deleted
toDeleteNewest(h) ==
    IF Cardinality(h) > MAX_HISTORY_SIZE
    THEN { e \in h : Cardinality({ x \in h : Before(e, x) })
                         < Cardinality(h) - MAX_HISTORY_SIZE }
    ELSE {}

\* allEntries.slice(0, allEntries.length - MAX_HISTORY_SIZE) when over limit
toDelete(h) ==
    IF Cardinality(h) > MAX_HISTORY_SIZE
    THEN { e \in h : Cardinality({ x \in h : Before(x, e) })
                         < Cardinality(h) - MAX_HISTORY_SIZE }
    ELSE {}

\* the store after enforceHistoryLimit
enforceHistoryLimit(h) == h \ toDelete(h)

\* addToHistory's first transaction: store.get, then store.put of the
\* updated entry (the call is complete) or store.add of the new one
AddToHistory(entry) ==
    /\ started < MaxHistoryCalls
    /\ InFlight < MaxInFlight
    /\ started' = started + 1
    /\ LET call == [ op |-> "HISTORY", pc |-> "tx", entry |-> entry ]
           found == { e \in history : e.slug = entry.slug }
       IN  IF found # {}
           THEN LET existing == CHOOSE e \in found : TRUE
                    updated == [entry EXCEPT
                                   !.isOwned = existing.isOwned \/ entry.isOwned,
                                   !.viewedAt = now]
                IN  /\ history' = (history \ found) \cup { updated }
                    /\ Step(call, Answered(call, 200, "updated",
                                           [ entry |-> entry, removed |-> {} ]))
           ELSE /\ history' = history \cup { entry }
                /\ Step(call, [call EXCEPT !.pc = "enforce"])
    /\ UNCHANGED << now, deserialize, paste_counter, rate, cache, store,
                    nextRowId, pending, issued, lost >>

\* await enforceHistoryLimit(db): its transaction, and the call is complete
EnforceHistoryLimit(r) ==
    /\ r \in At("HISTORY", "enforce")
    /\ history' = enforceHistoryLimit(history)
    /\ Step(r, Answered(r, 200, "added",
                        [ entry |-> r.entry,
                          removed |-> { e.slug : e \in toDelete(history) } ]))
    /\ UNCHANGED << now, deserialize, paste_counter, rate, cache, store,
                    nextRowId, pending, issued, lost, started >>

(***************************************************************************)
(* The system.                                                             *)
(***************************************************************************)
Requests == BagToSet(reqs)

\* The bodies of the requests of Spec: an anonymous paste that expires after
\* one hour, a paste of a signed-in user that never expires, and a body that
\* is not JSON
ServiceBodies ==
    { [ content |-> Some(Text(0, 11, 0)), language |-> Some("python"),
        expiresIn |-> Some("1h"), userId |-> None ],
      [ content |-> Some(Text(2, 0, 0)), language |-> None,
        expiresIn |-> Some("never"),
        userId |-> Some("123e4567-e89b-12d3-a456-426614174000") ] }

\* Spec: creates and reads of a few pastes, every back-end call may fail, the
\* clock advances
Next ==
    \/ Tick
    \/ \E ip \in IPS : StartPost(ip, MaxRequests)
    \/ \E r \in Requests : RlIncr(r, TRUE)
    \/ \E r \in Requests : RlExpire(r, TRUE)
    \/ \E r \in Requests : RlTtl(r, TRUE)
    \/ \E r \in Requests, body \in ServiceBodies : ParseBody(r, body)
    \/ \E r \in Requests, ok \in BOOLEAN : CreateIncr(r, ok)
    \/ \E r \in Requests, ok \in BOOLEAN : Insert(r, ok)
    \/ \E r \in Requests, ok \in BOOLEAN : CachePutCreated(r, ok)
    \/ \E slug \in RequestedSlugs : StartGet(slug, MaxRequests)
    \/ \E r \in Requests, ok \in BOOLEAN : GetCached(r, ok)
    \/ \E r \in Requests, ok \in BOOLEAN : GetBySlug(r, ok)
    \/ \E r \in Requests, ok \in BOOLEAN : CachePutRead(r, ok)
    \/ \E id \in BagToSet(pending), ok \in BOOLEAN : ViewIncrement(id, ok)

Spec == Init /\ [][Next]_vars

\* SpecInput: create requests with every kind of body, every back-end call
\* may fail; no reads, and the clock stands still
NextInput ==
    \/ \E ip \in IPS : StartPost(ip, MaxInputRequests)
    \/ \E r \in Requests, ok \in BOOLEAN : RlIncr(r, ok)
    \/ \E r \in Requests, ok \in BOOLEAN : RlExpire(r, ok)
    \/ \E r \in Requests, ok \in BOOLEAN : RlTtl(r, ok)
    \/ \E r \in Requests, body \in Bodies \cup {InvalidJson} : ParseBody(r, body)
    \/ \E r \in Requests, ok \in BOOLEAN : CreateIncr(r, ok)
    \/ \E r \in Requests, ok \in BOOLEAN : Insert(r, ok)
    \/ \E r \in Requests, ok \in BOOLEAN : CachePutCreated(r, ok)

SpecInput == InitCreate /\ [][NextInput]_vars

\* SpecLimit: a burst of valid create requests of one client inside one
\* rate-limit window, every back end available
BurstBody ==
    [ content |-> Some(Text(0, 11, 0)), language |-> Some("python"),
      expiresIn |-> Some("1h"), userId |-> None ]

NextLimit ==
    \/ \E ip \in IPS : StartPost(ip, MaxBurst)
    \/ \E r \in Requests : RlIncr(r, TRUE)
    \/ \E r \in Requests : RlExpire(r, TRUE)
    \/ \E r \in Requests : RlTtl(r, TRUE)
    \/ \E r \in Requests : ParseBody(r, BurstBody)
    \/ \E r \in Requests : CreateIncr(r, TRUE)
    \/ \E r \in Requests : Insert(r, TRUE)
    \/ \E r \in Requests : CachePutCreated(r, TRUE)

SpecLimit == InitCreate /\ [][NextLimit]_vars

\* SpecViews: one paste is created and then read by several readers whose
\* Redis client parses cached values itself, so that every read goes to the
\* table and issues one increment_view_count call; a call may fail
InitViews == Init /\ deserialize = TRUE

NextViews ==
    \/ \E ip \in IPS : StartPost(ip, 1)
    \/ \E r \in Requests : RlIncr(r, TRUE)
    \/ \E r \in Requests : RlExpire(r, TRUE)
    \/ \E r \in Requests : RlTtl(r, TRUE)
    \/ \E r \in Requests : ParseBody(r, BurstBody)
    \/ \E r \in Requests : CreateIncr(r, TRUE)
    \/ \E r \in Requests : Insert(r, TRUE)
    \/ \E r \in Requests : CachePutCreated(r, TRUE)
    \/ \E slug \in RequestedSlugs : StartGet(slug, MaxViewRequests)
    \/ \E r \in Requests : GetCached(r, TRUE)
    \/ \E r \in Requests : GetBySlug(r, TRUE)
    \/ \E r \in Requests : CachePutRead(r, TRUE)
    \/ \E id \in BagToSet(pending), ok \in BOOLEAN : ViewIncrement(id, ok)

SpecViews == InitViews /\ [][NextViews]_vars

\* SpecExpiry: one paste that expires after an hour is created and read by
\* several readers while the clock advances; every back end is available
\* but for the cache write of the create
NextExpiry ==
    \/ Tick
    \/ \E ip \in IPS : StartPost(ip, 1)
    \/ \E r \in Requests : RlIncr(r, TRUE)
    \/ \E r \in Requests : RlExpire(r, TRUE)
    \/ \E r \in Requests : RlTtl(r, TRUE)
    \/ \E r \in Requests : ParseBody(r, BurstBody)
    \/ \E r \in Requests : CreateIncr(r, TRUE)
    \/ \E r \in Requests : Insert(r, TRUE)
    \/ \E r \in Requests, ok \in BOOLEAN : CachePutCreated(r, ok)
    \/ \E slug \in RequestedSlugs : StartGet(slug, MaxExpiryRequests)
    \/ \E r \in Requests : GetCached(r, TRUE)
    \/ \E r \in Requests : GetBySlug(r, TRUE)
    \/ \E r \in Requests : CachePutRead(r, TRUE)
    \/ \E id \in BagToSet(pending) : ViewIncrement(id, TRUE)

SpecExpiry == InitCreate /\ [][NextExpiry]_vars

\* SpecSlug: generateSlug and decodeSlug are called on counter values and
\* on strings over the alphabet; `last` holds the call and its result
Counters == 0 .. MaxCounter

SlugInputs ==
    { generateSlug(n) : n \in Counters }
        \cup { << >>, << 1 >>, << 0, 0, 1 >>, << 0, 0, 0, 0, 0, 0, 1 >>,
               << 0, 0, 0, 0, 0, 0, 0 >>, << 0, 1, 0, 0, 0, 0, 0 >> }

GenerateSlugCall(n) ==
    /\ last' = Some([ op |-> "generateSlug", counter |-> n,
                      slug |-> generateSlug(n),
                      decoded |-> decodeSlug(generateSlug(n)) ])
    /\ UNCHANGED << history, now, deserialize, paste_counter, rate, cache, store,
                    nextRowId, pending, reqs, started, responses, served, gone,
                    deleted, allowedAt, issued, lost >>

DecodeSlugCall(slug) ==
    /\ last' = Some([ op |-> "decodeSlug", slug |-> slug,
                      valid |-> hashidsDecode(slug) # << >>,
                      result |-> decodeSlug(slug) ])
    /\ UNCHANGED << history, now, deserialize, paste_counter, rate, cache, store,
                    nextRowId, pending, reqs, started, responses, served, gone,
                    deleted, allowedAt, issued, lost >>

NextSlug ==
    \/ \E n \in Counters : GenerateSlugCall(n)
    \/ \E slug \in SlugInputs : DecodeSlugCall(slug)

SpecSlug == InitCreate /\ [][NextSlug]_vars

\* SpecWindow: create requests of one client spread over several rate-limit
\* windows, the rate-limit back end available; the requests carry a body
\* that is not JSON, so that an allowed request is answered at once, and
\* arrive one after the other
TickWindow ==
    /\ now < MaxWindowTicks * WindowTickSeconds
    /\ now' = now + WindowTickSeconds
    /\ rate' = LiveRate(now')
    /\ cache' = LiveCache(now')
    /\ UNCHANGED << history, deserialize, paste_counter, store, nextRowId, pending,
                    reqs, hist, issued, lost >>

NextWindow ==
    \/ TickWindow
    \/ \E ip \in IPS : InFlight = 0 /\ StartPost(ip, MaxWindowRequests)
    \/ \E r \in Requests : RlIncr(r, TRUE)
    \/ \E r \in Requests : RlExpire(r, TRUE)
    \/ \E r \in Requests : RlTtl(r, TRUE)
    \/ \E r \in Requests : ParseBody(r, InvalidJson)

SpecWindow == InitCreate /\ [][NextWindow]_vars

\* SpecRead: one paste is created and read while every back end stays
\* available; every handler that can take a step eventually takes one, and
\* the database eventually runs every increment_view_count call it was sent
NextRead ==
    \/ \E ip \in IPS : StartPost(ip, 1)
    \/ \E r \in Requests : RlIncr(r, TRUE)
    \/ \E r \in Requests : RlExpire(r, TRUE)
    \/ \E r \in Requests : RlTtl(r, TRUE)
    \/ \E r \in Requests : ParseBody(r, BurstBody)
    \/ \E r \in Requests : CreateIncr(r, TRUE)
    \/ \E r \in Requests : Insert(r, TRUE)
    \/ \E r \in Requests : CachePutCreated(r, TRUE)
    \/ \E slug \in RequestedSlugs : StartGet(slug, MaxReadRequests)
    \/ \E r \in Requests : GetCached(r, TRUE)
    \/ \E r \in Requests : GetBySlug(r, TRUE)
    \/ \E r \in Requests : CachePutRead(r, TRUE)
    \/ \E id \in BagToSet(pending) : ViewIncrement(id, TRUE)

SpecRead == InitCreate /\ [][NextRead]_vars /\ WF_vars(NextRead)

\* SpecCollision: the table and the cache hold a paste created earlier under
\* the first slug, and the Redis counter has started again from zero (its
\* data was lost); create requests follow, every back end available
ExistingRow ==
    [ id |-> 1, slug |-> generateSlug(1), content |-> Text(0, 5, 0),
      language |-> "text", user_id |-> None, ip_hash |-> hashIP("203.0.113.7"),
      created_at |-> 0, expires_at |-> Some(7 * 24 * 3600), view_count |-> 0 ]

ExistingEntry ==
    [ data |-> [ content |-> ExistingRow.content, language |-> ExistingRow.language,
                 created_at |-> ExistingRow.created_at,
                 expires_at |-> ExistingRow.expires_at ],
      ttlAt |-> CACHE_TTL ]

InitCollision ==
    /\ history = {}
    /\ now = 0
    /\ deserialize = FALSE
    /\ paste_counter = 0
    /\ rate = [ip \in IPS |-> [count |-> 0, ttlAt |-> None]]
    /\ cache = (ExistingRow.slug :> ExistingEntry)
    /\ store = { ExistingRow }
    /\ nextRowId = ExistingRow.id + 1
    /\ pending = EmptyBag
    /\ reqs = EmptyBag
    /\ started = 0
    /\ last = None
    /\ responses = EmptyBag
    /\ served = EmptyBag
    /\ gone = {}
    /\ deleted = {}
    /\ allowedAt = EmptyBag
    /\ issued = EmptyBag
    /\ lost = 0

NextCollision ==
    \/ \E ip \in IPS : StartPost(ip, MaxCollisionRequests)
    \/ \E r \in Requests : RlIncr(r, TRUE)
    \/ \E r \in Requests : RlExpire(r, TRUE)
    \/ \E r \in Requests : RlTtl(r, TRUE)
    \/ \E r \in Requests, body \in ServiceBodies : ParseBody(r, body)
    \/ \E r \in Requests : CreateIncr(r, TRUE)
    \/ \E r \in Requests : Insert(r, TRUE)
    \/ \E r \in Requests : CachePutCreated(r, TRUE)

SpecCollision == InitCollision /\ [][NextCollision]_vars

\* SpecOutcomes: a burst of create requests of one client inside one window
\* with every kind of outcome: created, invalid JSON, validation error,
\* policy violation, content too large, a failed counter or insert, and
\* rate-limited; the rate-limit back end is available
OutcomeBodies ==
    { BurstBody,
      [ content |-> Some(Text(0, 0, 0)), language |-> None,
        expiresIn |-> None, userId |-> None ],
      [ content |-> Some(Text(0, 11, 0)), language |-> None,
        expiresIn |-> Some("never"), userId |-> None ],
      [ content |-> Some(Text(0, 0, 40000)), language |-> None,
        expiresIn |-> None, userId |-> None ],
      InvalidJson }

NextOutcomes ==
    \/ \E ip \in IPS : StartPost(ip, MaxBurst)
    \/ \E r \in Requests : RlIncr(r, TRUE)
    \/ \E r \in Requests : RlExpire(r, TRUE)
    \/ \E r \in Requests : RlTtl(r, TRUE)
    \/ \E r \in Requests, body \in OutcomeBodies : ParseBody(r, body)
    \/ \E r \in Requests, ok \in BOOLEAN : CreateIncr(r, ok)
    \/ \E r \in Requests, ok \in BOOLEAN : Insert(r, ok)
    \/ \E r \in Requests : CachePutCreated(r, TRUE)

SpecOutcomes == InitCreate /\ [][NextOutcomes]_vars

\* SpecDelete: one paste is created, read and, once its create has been
\* answered, deleted; the table and the cache are available but for the
\* calls of deletePaste
NextDelete ==
    \/ \E ip \in IPS : StartPost(ip, 1)
    \/ \E r \in Requests : RlIncr(r, TRUE)
    \/ \E r \in Requests : RlExpire(r, TRUE)
    \/ \E r \in Requests : RlTtl(r, TRUE)
    \/ \E r \in Requests : ParseBody(r, BurstBody)
    \/ \E r \in Requests : CreateIncr(r, TRUE)
    \/ \E r \in Requests : Insert(r, TRUE)
    \/ \E r \in Requests : CachePutCreated(r, TRUE)
    \/ \E slug \in RequestedSlugs : StartGet(slug, MaxDeleteRequests)
    \/ \E r \in Requests : GetCached(r, TRUE)
    \/ \E r \in Requests : GetBySlug(r, TRUE)
    \/ \E r \in Requests : CachePutRead(r, TRUE)
    \/ \E id \in BagToSet(pending) : ViewIncrement(id, TRUE)
    \/ \E slug \in RequestedSlugs :
           /\ CopiesIn(<< "POST", 201 >>, responses) >= 1
           /\ StartDelete(slug, MaxDeleteRequests)
    \/ \E r \in Requests, ok \in BOOLEAN : DeleteBySlug(r, ok)
    \/ \E r \in Requests, ok \in BOOLEAN : CacheDel(r, ok)

SpecDelete == InitCreate /\ [][NextDelete]_vars

\* SpecHistory: addToHistory calls on a browser history that holds none,
\* one less than the limit, or the limit of entries, viewed in ascending,
\* descending or equal times before now and owned on odd slugs; a call
\* brings an entry of a slug that is present or new, viewed long ago,
\* recently or now
HistorySizes == { 0, MAX_HISTORY_SIZE - 1, MAX_HISTORY_SIZE }

HistoryOf(n, order) ==
    { [ slug |-> i,
        viewedAt |-> IF order = "ascending" THEN i
                     ELSE IF order = "descending" THEN MAX_HISTORY_SIZE + 1 - i
                     ELSE MAX_HISTORY_SIZE \div 2,
        isOwned |-> i % 2 = 1 ] : i \in 1 .. n }

InitialHistories ==
    { HistoryOf(n, order) :
          n \in HistorySizes, order \in { "ascending", "descending", "equal" } }

HistoryEntries ==
    [ slug : { 1, 2, MAX_HISTORY_SIZE, MAX_HISTORY_SIZE + 1, MAX_HISTORY_SIZE + 2 },
      viewedAt : { 0, MAX_HISTORY_SIZE \div 2, 2 * MAX_HISTORY_SIZE },
      isOwned : BOOLEAN ]

InitHistory ==
    /\ history \in InitialHistories
    /\ now = 2 * MAX_HISTORY_SIZE
    /\ deserialize = FALSE
    /\ paste_counter = 0
    /\ rate = [ip \in IPS |-> [count |-> 0, ttlAt |-> None]]
    /\ cache = << >>
    /\ store = {}
    /\ nextRowId = 1
    /\ pending = EmptyBag
    /\ reqs = EmptyBag
    /\ started = 0
    /\ last = None
    /\ responses = EmptyBag
    /\ served = EmptyBag
    /\ gone = {}
    /\ deleted = {}
    /\ allowedAt = EmptyBag
    /\ issued = EmptyBag
    /\ lost = 0

NextHistory ==
    \/ \E entry \in HistoryEntries : AddToHistory(entry)
    \/ \E r \in Requests : EnforceHistoryLimit(r)

SpecHistory == InitHistory /\ [][NextHistory]_vars

\* the number of requests of a client that the limiter allowed and that it
\* counted in the interval of RATE_WINDOW seconds that starts at time a
AllowedIn(ip, a) ==
    LET inside == { e \in DOMAIN allowedAt :
                      e[1] = ip /\ e[2] >= a /\ e[2] < a + RATE_WINDOW }
    IN  BagCardinality([e \in inside |-> allowedAt[e]])

(***************************************************************************)
(* Properties.  A response is read off `last`, the request answered last.  *)
(***************************************************************************)
Answer == last[1]

AnsweredGet == last # None /\ Answer.op = "GET"

AnsweredPost == last # None /\ Answer.op = "POST"

\* C1 (as stated): a getPaste call that starts after current time has passed
\* the paste's expiresAt does not return the paste, cached or not.
C1_NoExpiredPasteReturned ==
    (AnsweredGet /\ Answer.status = 200 /\ Answer.paste.expiresAt # None)
        => Answer.startedAt <= Answer.paste.expiresAt[1]

\* C2 (as stated): once every issued increment has completed, the stored
\* view count of a paste is the number of reads that returned it.
C2_ViewCountCountsReads ==
    (reqs = EmptyBag /\ pending = EmptyBag /\ lost = 0)
        => \A row \in store : row.view_count = CopiesIn(row.slug, served)

\* C3: when a burst of N valid creates of one client inside one window has
\* been answered, min(N, limit) were allowed and created a paste and the
\* others were rejected as rate-limited, whatever the interleaving.
C3_ExactlyLimitAllowed ==
    reqs = EmptyBag =>
        LET allowed == IF started <= RATE_LIMIT THEN started ELSE RATE_LIMIT IN
        /\ CopiesIn(<< "POST", 201 >>, responses) = allowed
        /\ CopiesIn(<< "POST", 429 >>, responses) = started - allowed
        /\ Cardinality(store) = allowed

C3_Witness ==
    /\ reqs = EmptyBag
    /\ started > RATE_LIMIT
    /\ CopiesIn(<< "POST", 429 >>, responses) = started - RATE_LIMIT
    /\ Cardinality(store) = RATE_LIMIT

\* C4: the values INCR paste_counter returns are pairwise distinct, also
\* when an insert fails, and no two rows of the table share a slug.
C4_CounterValuesDistinct ==
    /\ \A c \in BagToSet(issued) : CopiesIn(c, issued) = 1
    /\ \A c, d \in BagToSet(issued) : c # d => generateSlug(c) # generateSlug(d)
    /\ \A x, y \in store : x.slug = y.slug => x = y

C4_Witness ==
    /\ BagCardinality(issued) >= 2
    /\ AnsweredPost /\ Answer.why = "insert_failed"
    /\ store # {}

\* C5 (as stated): a create request without userId and with expiresIn
\* "never" is answered 403, whatever its other fields are.
C5_AnonNeverAlways403 ==
    (AnsweredPost /\ "anonNever" \in DOMAIN Answer /\ Answer.anonNever)
        => Answer.status = 403

\* C5 (amended): a create request without userId and with expiresIn "never"
\* never creates a paste; it is answered 403 when the body passes the
\* schema, and 400 when another field fails the schema.
C5_AnonNeverRejected ==
    /\ (AnsweredPost /\ "anonNever" \in DOMAIN Answer /\ Answer.anonNever)
           => Answer.status = (IF Answer.schemaOk THEN 403 ELSE 400)
    /\ \A r \in Requests : "anonNever" \in DOMAIN r => ~ r.anonNever
    /\ \A row \in store : row.user_id # None \/ row.expires_at # None

C5_Witness ==
    /\ AnsweredPost /\ "anonNever" \in DOMAIN Answer
    /\ Answer.anonNever /\ Answer.schemaOk /\ Answer.status = 403
    /\ store = {}

\* C6: no createPaste call hands the table an insert with user_id null and
\* expires_at null, whatever the expiresIn selector (given, omitted or
\* defaulted) and with or without userId; so every row has one of the two.
C6_OwnerOrExpiry ==
    /\ \A r \in At("POST", "insert") :
           PasteInsert(r).user_id # None \/ PasteInsert(r).expires_at # None
    /\ \A row \in store : row.user_id # None \/ row.expires_at # None

C6_Witness ==
    /\ \E row \in store : row.user_id = None /\ row.expires_at # None
    /\ AnsweredPost /\ Answer.status = 201 /\ Answer.expiresAt = Some(7 * 24 * 3600)

\* C7: a cache lookup that finds no entry, finds a value that is not a
\* string, or fails, goes on to the table: getPaste answers none only when
\* the table holds no unexpired row for the slug, and answers the paste when
\* it holds one (a failed table read is an error, not none).
C7_CacheMissFallsThrough ==
    /\ \A r \in Requests :
           (r.op = "GET" /\ "cacheOutcome" \in DOMAIN r) => r.cacheOutcome # "hit"
    /\ \A r \in At("GET", "cache_put") : r.live /\ r.paste.slug = r.slug
    /\ (AnsweredGet /\ Answer.cacheOutcome # "hit") =>
           /\ Answer.status \in { 200, 404, 500 }
           /\ Answer.status = 500 <=> Answer.why = "store_failed"
           /\ Answer.status = 200 => Answer.live /\ Answer.paste.slug = Answer.slug
           /\ Answer.status = 404 => ~ Answer.live

C7_Witness ==
    /\ AnsweredGet /\ Answer.status = 200
    /\ Answer.cacheOutcome \in { "nonstring", "error" }
    /\ Answer.slug \in DOMAIN cache

\* C8: when a call of rateLimit to its back end fails (incr, expire or ttl)
\* the result is allowed with remaining = limit, and the create request goes
\* on: it is not rejected as rate-limited.
C8_FailOpen ==
    /\ \A r \in Requests :
           ("rlFailed" \in DOMAIN r /\ r.rlFailed /\ "rl" \in DOMAIN r) =>
               /\ r.rl.success
               /\ r.rl.remaining = RATE_LIMIT
               /\ r.rl.limit = RATE_LIMIT
    /\ (AnsweredPost /\ Answer.rlFailed) =>
           /\ Answer.why # "rate_limited"
           /\ Answer.status # 429
           /\ Answer.status = 201 => Answer.rl.remaining = RATE_LIMIT

C8_Witness ==
    /\ AnsweredPost /\ Answer.rlFailed /\ Answer.status = 201
    /\ store # {}

\* C9: when INCR paste_counter fails, the create request is answered 500
\* with no slug, and the step inserts no row, writes no cache entry and
\* leaves the counter as it was.
C9_CounterFailureSurfaced ==
    [][(responses' # responses /\ last'[1].why = "counter_failed") =>
           /\ last'[1].status = 500
           /\ "slug" \notin DOMAIN last'[1]
           /\ store' = store
           /\ cache' = cache
           /\ paste_counter' = paste_counter
           /\ issued' = issued]_vars

C9_Witness ==
    /\ AnsweredPost /\ Answer.why = "counter_failed" /\ Answer.status = 500
    /\ store = {} /\ cache = << >>

\* C10: when the insert fails, the create request is answered with an
\* error, the table holds no row for the generated slug and the cache holds
\* no entry for it; a slug is in the cache only if its row was inserted.
C10_NoPartialCreate ==
    /\ \A slug \in DOMAIN cache : \E row \in store : row.slug = slug
    /\ (AnsweredPost /\ Answer.why = "insert_failed") =>
           /\ Answer.status >= 400
           /\ \A row \in store : row.slug # Answer.slug
           /\ Answer.slug \notin DOMAIN cache

C10_Witness ==
    /\ AnsweredPost /\ Answer.why = "insert_failed"
    /\ paste_counter >= 1
    /\ \A row \in store : row.slug # Answer.slug

\* C11: a create request whose insert succeeded is answered 201 with its
\* slug, and its row is in the table, whether the cache write that follows
\* succeeds or fails.
C11_CacheFailureKeepsCreate ==
    [][\A r \in At("POST", "cache_put") :
           CopiesIn(r, reqs') < CopiesIn(r, reqs) =>
               /\ last'[1].op = "POST"
               /\ last'[1].status = 201
               /\ last'[1].slug = r.slug
               /\ \E row \in store' : row.slug = r.slug /\ row.id = r.paste.id]_vars

C11_Witness ==
    /\ AnsweredPost /\ Answer.status = 201 /\ ~ Answer.cached
    /\ Answer.slug \notin DOMAIN cache
    /\ \E row \in store : row.slug = Answer.slug

\* C12: a read that found the paste in the table is answered 200 with that
\* paste before the outcome of its view-count increment is known, and the
\* increment, failed or not, changes no response.
C12_IncrementFailureNotSurfaced ==
    [][/\ \A r \in At("GET", "cache_put") :
              CopiesIn(r, reqs') < CopiesIn(r, reqs) =>
                  /\ last'[1].op = "GET"
                  /\ last'[1].status = 200
                  /\ last'[1].paste = r.paste
                  /\ CopiesIn(r.paste.id, pending') = CopiesIn(r.paste.id, pending) + 1
       /\ BagCardinality(pending') < BagCardinality(pending) =>
              /\ last' = last
              /\ responses' = responses
              /\ served' = served
              /\ reqs' = reqs]_vars

C12_Witness ==
    /\ lost >= 1
    /\ AnsweredGet /\ Answer.status = 200 /\ Answer.why = "store"
    /\ \E row \in store : row.id = Answer.paste.id /\ row.view_count = 0
    /\ pending = EmptyBag

\* C13: every successful increment_view_count call raises the view count of
\* its paste by exactly one, however the calls interleave: the stored count
\* is the number of calls issued less those still pending and those failed.
C13_IncrementsNotLost ==
    /\ \A id \in BagToSet(pending) : \E row \in store : row.id = id
    /\ \A row \in store :
           row.view_count + CopiesIn(row.id, pending) + lost
               = CopiesIn(row.slug, served)

C13_Witness ==
    \E row \in store :
        /\ CopiesIn(row.id, pending) >= 2
        /\ row.view_count >= 1
        /\ lost = 0

\* C14: the step in which createPaste fails with a validation error or with
\* the anonymous-never policy violation changes neither the ID counter, the
\* table nor the cache; the request is answered 400 or 403.
C14_RejectionHasNoEffect ==
    [][(responses' # responses /\ last'[1].why \in { MsgZod, MsgAnonymous }) =>
           /\ last'[1].status = (IF last'[1].why = MsgZod THEN 400 ELSE 403)
           /\ paste_counter' = paste_counter
           /\ issued' = issued
           /\ store' = store
           /\ nextRowId' = nextRowId
           /\ cache' = cache
           /\ \A q \in BagToSet(reqs') : q \in BagToSet(reqs)]_vars

C14_Witness ==
    /\ AnsweredPost /\ Answer.why = MsgAnonymous /\ Answer.status = 403
    /\ paste_counter = 0 /\ store = {} /\ cache = << >>

\* C15 (as stated): once a read of a slug has answered none because the
\* paste is expired, no read of the slug that starts later is answered with
\* the paste.
C15_ExpiredStaysExpired ==
    (AnsweredGet /\ Answer.afterGone) => Answer.status # 200

\* C16: a read answered while the table holds a row for the slug whose
\* expiry has not passed is answered 200 with the content, language and
\* expiresAt of that row, from the cache or from the table, whether the
\* cache write of the create succeeded or not (a failed table read is
\* answered with an error).
C16_CreatedPasteReadable ==
    [][(responses' # responses /\ last'[1].op = "GET"
            /\ last'[1].why # "store_failed") =>
           \A row \in store :
               (/\ row.slug = last'[1].slug
                /\ (row.expires_at = None \/ now <= row.expires_at[1])) =>
                   /\ last'[1].status = 200
                   /\ last'[1].paste.slug = row.slug
                   /\ last'[1].paste.content = row.content
                   /\ last'[1].paste.language = row.language
                   /\ last'[1].paste.expiresAt = row.expires_at]_vars

C16_Witness ==
    /\ AnsweredGet /\ Answer.status = 200 /\ Answer.why = "cache"
    /\ Answer.paste.expiresAt # None /\ now <= Answer.paste.expiresAt[1]
    /\ CopiesIn(<< "POST", 201 >>, responses) >= 1
    /\ \E row \in store : row.slug = Answer.slug /\ row.content = Answer.paste.content

\* C17: no step of a read of a slug that has no row in the table (rows are
\* never removed, so none was ever created) changes the cache, the table or
\* the pending increments, and the read is answered 404 (500 only when the
\* table read itself failed).
C17_NeverCreatedIsNone ==
    [][\A r \in Requests :
           (/\ r.op = "GET"
            /\ CopiesIn(r, reqs') < CopiesIn(r, reqs)
            /\ \A row \in store' : row.slug # r.slug) =>
               /\ cache' = cache
               /\ store' = store
               /\ pending' = pending
               /\ r.slug \notin DOMAIN cache'
               /\ responses' # responses =>
                      /\ last'[1].status = (IF last'[1].why = "store_failed"
                                            THEN 500 ELSE 404)
                      /\ last'[1].why \in { "none", "store_failed" }]_vars

C17_Witness ==
    /\ AnsweredGet /\ Answer.status = 404 /\ Answer.why = "none"
    /\ ~ Answer.expired
    /\ store = {} /\ cache = << >> /\ pending = EmptyBag /\ paste_counter = 0

\* C18 (as stated): a create request whose other fields are valid and whose
\* content is longer than 102,400 bytes in UTF-8 is answered 413, whether
\* its characters are single-byte or multi-byte; content of exactly 102,400
\* bytes is accepted.
C18_OversizedIs413 ==
    (/\ AnsweredPost /\ "content" \in DOMAIN Answer
     /\ Answer.content # None /\ Answer.fieldsOk /\ ~ Answer.anonNever) =>
        /\ Utf8Length(Answer.content[1]) > CONTENT_SIZE_LIMIT
               => Answer.status = 413
        /\ Utf8Length(Answer.content[1]) = CONTENT_SIZE_LIMIT
               => Answer.status \notin { 400, 413 }

C20_RejectedHasNoEffect ==
    [][/\ (responses' # responses /\ last'[1].status = 429) =>
              /\ last'[1].why = "rate_limited"
              /\ ~ last'[1].rl.success
              /\ last'[1].rl.remaining >= 0
              /\ last'[1].rl.limit = RATE_LIMIT
              /\ "reset" \in DOMAIN last'[1].rl
              /\ "slug" \notin DOMAIN last'[1]
              /\ paste_counter' = paste_counter
              /\ issued' = issued
              /\ store' = store
              /\ cache' = cache
       /\ reqs' = EmptyBag =>
              LET created == CopiesIn(<< "POST", 201 >>, responses') IN
              /\ paste_counter' = created
              /\ Cardinality(store') = created
              /\ Cardinality(DOMAIN cache') = created]_vars

C20_Witness ==
    /\ AnsweredPost /\ Answer.status = 429 /\ Answer.rl.remaining = 0
    /\ reqs = EmptyBag
    /\ paste_counter = RATE_LIMIT /\ Cardinality(store) = RATE_LIMIT

\* C21 (as stated): a rate-limit key that exists has an expiry set, once no
\* request stands between the increment that created it and its expire
\* call; this also when that expire call failed.
C21_RateKeyHasExpiry ==
    \A ip \in IPS :
        (/\ rate[ip].count > 0
         /\ \A r \in At("POST", "rl_expire") : r.ip # ip)
            => rate[ip].ttlAt # None

\* C22 (as stated): the content of every row of the table is between 1 and
\* 102,400 bytes long in UTF-8; no accepted create stores an empty content,
\* whitespace-only content included.
C22_StoredContentInRange ==
    \A row \in store :
        /\ Utf8Length(row.content) >= 1
        /\ Utf8Length(row.content) <= CONTENT_SIZE_LIMIT

\* C23: with the rate-limit back end available, in every interval of
\* RATE_WINDOW seconds the limiter allows at most 2 * RATE_LIMIT requests of
\* a client (a request counts at the time of its INCR).
C23_AtMostTwiceLimit ==
    \A ip \in IPS, a \in 0 .. now : AllowedIn(ip, a) <= 2 * RATE_LIMIT

C23_Witness ==
    /\ \E ip \in IPS, a \in 1 .. now :
           /\ AllowedIn(ip, a) = 2 * RATE_LIMIT - 1
           /\ AllowedIn(ip, 0) = RATE_LIMIT
    /\ CopiesIn(<< "POST", 429 >>, responses) >= 1

\* C24 (as stated): with every back end available, once a read of a paste
\* has been answered with the paste, the stored view count of the paste
\* eventually becomes at least 1.
C24_ViewEventuallyCounted ==
    \A slug \in RequestedSlugs :
        (CopiesIn(slug, served) >= 1)
            ~> (\E row \in store : row.slug = slug /\ row.view_count >= 1)

\* C25: a read that missed the cache and finds in the table a row of the
\* slug whose expires_at is in the past is answered none in that step, and
\* the step writes no cache entry, issues no view-count increment and
\* leaves the table as it is.
C25_ExpiredRowIsNone ==
    [][\A r \in At("GET", "store_get") :
           (/\ CopiesIn(r, reqs') < CopiesIn(r, reqs)
            /\ \E row \in store : /\ row.slug = r.slug
                                  /\ row.expires_at # None
                                  /\ row.expires_at[1] < now) =>
               /\ responses' # responses
               /\ last'[1].op = "GET"
               /\ last'[1].slug = r.slug
               /\ last'[1].status = 404
               /\ "paste" \notin DOMAIN last'[1]
               /\ cache' = cache
               /\ pending' = pending
               /\ store' = store]_vars

C25_Witness ==
    /\ AnsweredGet /\ Answer.status = 404 /\ Answer.cacheOutcome = "miss"
    /\ Answer.expired
    /\ \E row \in store : /\ row.slug = Answer.slug
                          /\ row.expires_at # None /\ row.expires_at[1] < now
                          /\ row.view_count = 0
    /\ Answer.slug \notin DOMAIN cache
    /\ pending = EmptyBag

\* C26: the step in which the table rejects an insert because a row of the
\* slug exists answers the create request with an error: the request takes
\* no other counter value, and the table, the existing row and the cache
\* entry of the slug are left as they were.
C26_DuplicateSlugIsFatal ==
    [][\A r \in At("POST", "insert") :
           (/\ CopiesIn(r, reqs') < CopiesIn(r, reqs)
            /\ \E row \in store : row.slug = r.slug) =>
               /\ responses' # responses
               /\ last'[1].op = "POST"
               /\ last'[1].why = "insert_failed"
               /\ last'[1].status = 500
               /\ last'[1].slug = r.slug
               /\ BagCardinality(reqs') = BagCardinality(reqs) - 1
               /\ paste_counter' = paste_counter
               /\ issued' = issued
               /\ store' = store
               /\ nextRowId' = nextRowId
               /\ cache' = cache]_vars

C26_Witness ==
    /\ AnsweredPost /\ Answer.why = "insert_failed" /\ Answer.status = 500
    /\ Answer.slug = ExistingRow.slug
    /\ Answer.content # Some(ExistingRow.content)
    /\ ExistingRow \in store
    /\ cache[ExistingRow.slug] = ExistingEntry
    /\ paste_counter >= 1

\* C27: every create request raises the window counter of its client by
\* exactly one, in the step of its INCR and in no other step, whatever its
\* outcome: inside one window the counter is the number of requests that
\* have made their INCR call, and when all are answered it is the number of
\* requests received.
C27_CountedExactlyOnce ==
    \A ip \in IPS :
        LET waiting == { r \in At("POST", "rl_incr") : r.ip = ip }
            notYet == BagCardinality([r \in waiting |-> reqs[r]])
        IN  /\ rate[ip].count = started - notYet
            /\ reqs = EmptyBag => rate[ip].count = BagCardinality(responses)

C27_Witness ==
    /\ reqs = EmptyBag
    /\ started = MaxBurst
    /\ \A ip \in IPS : rate[ip].count = MaxBurst
    /\ \A status \in { 201, 400, 403, 413, 500, 429 } :
           CopiesIn(<< "POST", status >>, responses) = 1

\* C28 (as stated): the viewCount and the owner of the paste a read is
\* answered with are values the table held for the paste during the read,
\* also when the paste comes from a cache hit: the owner is the row's
\* user_id and the count lies between the row's view_count when the read
\* arrived and its view_count now.
C28_CountAndOwnerFromStore ==
    (AnsweredGet /\ Answer.status = 200) =>
        \E row \in store :
            /\ row.slug = Answer.slug
            /\ Answer.paste.userId = row.user_id
            /\ Answer.paste.viewCount <= row.view_count
            /\ Answer.viewsAtStart # None
                   => Answer.viewsAtStart[1] <= Answer.paste.viewCount

\* C29 (as stated): once deletePaste has returned true for a slug, no read
\* of the slug that starts later is answered with the paste.
C29_DeletedStaysGone ==
    (AnsweredGet /\ Answer.afterDelete) => Answer.status # 200

====
